---- MODULE Spec2Model ----
(***************************************************************************)
(* Model of the mouse recorder / replayer in src/main.go: the two          *)
(* low-level hook callbacks (keyboardHookProc, mouseHookProc), the         *)
(* recording toggle, the JSON log (dumpToFile / replayFromFile), the       *)
(* replay loop with its two injection primitives, and main with            *)
(* installHooks, unInstallHooks and runMessageLoop.                        *)
(*                                                                         *)
(* Spec is the recorder as the message loop runs it, one callback at a     *)
(* time; SpecMain is the whole process from the entry of main; SpecConc    *)
(* lets the callbacks interleave; SpecCapture, SpecReplay and SpecCodec    *)
(* run the capture path, the replay engine and the codec on wider inputs.  *)
(*                                                                         *)
(* A uint32 MouseData is kept as its two 16-bit halves <<hi, lo>>, so that *)
(* ">> 16" and "& 0xFFFF" are exact without leaving TLC's integer range.   *)
(* The bytes of the log are a sequence of tokens: brackets, braces, commas,*)
(* field keys, one token per decimal digit or sign, one per string value.  *)
(***************************************************************************)
EXTENDS Integers, Sequences, FiniteSets, TLC

VARIABLES
    now,              \* the wall clock, in milliseconds
    mtx,              \* sync.Mutex: "free", or the callback holding it
    isRecording,      \* main.go:120
    recordingStarted, \* main.go:124
    recordedData,     \* main.go:121
    lastEventTime,    \* main.go:122
    file,             \* the file recorded-mice.cfg: [exists, bytes]
    kpc,              \* position of keyboardHookProc
    kargs,            \* its arguments: [code, wparam, vk]
    kfwd,             \* the CallNextHookEx calls it has made in this invocation
    printed,          \* what it has printed in this invocation
    derr,             \* the error dumpToFile returned ("nil" for none)
    records,          \* replayFromFile: the decoded records
    ri,               \* replayFromFile: the loop index i
    rerr,             \* replayFromFile: the error it returns ("nil" for none)
    wake,             \* time.Sleep: the instant before which it does not return
    out,              \* the backend calls of the current replay, in issue order
    synthEnd,         \* the instant the previous record's synthesis completed
    failedAt,         \* index of the first record with a failed backend call, or -1
    mpc,              \* position of mouseHookProc
    margs,            \* its arguments: [code, wparam, x, y, hi, lo]
    mloc,             \* its locals: [rec, event, mouseData, now]
    mfwd,             \* the CallNextHookEx calls it has made in this invocation
    presses,          \* number of toggle-key presses handled so far, modulo 2
    events,           \* number of mouse events handled while recording so far
    sessionEvents,    \* mouse events whose callback began while recording was on
    sessionStart,     \* the instant of the last start toggle
    stamps,           \* the instants mouseHookProc read for the records of the session
    mainpc,           \* position of main
    hKeyboardHook,    \* main.go:116, 0 for none
    hMouseHook,       \* main.go:117, 0 for none
    installed,        \* the hooks the OS holds for this process
    exitCode,         \* the exit status of the process
    installErr,       \* main: err of installHooks ("nil" for none)
    rdpc,             \* position of a second keyboardHookProc, in replayFromFile
    rdbytes           \* the file content its ioutil.ReadFile returned

vars == <<now, mtx, isRecording, recordingStarted, recordedData, lastEventTime,
          file, kpc, kargs, kfwd, printed, derr, records, ri, rerr, wake, out,
          synthEnd, failedAt,
          mpc, margs, mloc, mfwd, presses, events, sessionEvents,
          sessionStart, stamps,
          mainpc, hKeyboardHook, hMouseHook, installed, exitCode, installErr,
          rdpc, rdbytes>>

recVars   == <<isRecording, recordingStarted, recordedData, lastEventTime>>
replVars  == <<records, ri, rerr, wake, out, synthEnd, failedAt>>
kbdVars   == <<kpc, kargs, kfwd, printed, derr>>
mouseVars == <<mpc, margs, mloc, mfwd>>
mainVars  == <<mainpc, hKeyboardHook, hMouseHook, installed, exitCode, installErr>>
readerVars == <<rdpc, rdbytes>>
procVars  == <<mainVars, readerVars>>

-----------------------------------------------------------------------------
(* Bounds of the model *)

MaxTime    == 2   \* the clock runs from 0 to MaxTime
MaxEvents  == 2   \* mouse events handled while recording, in one run
MaxLogLen  == 2   \* records of a log the replay engine is started on
MaxCodecLen == 2  \* records of a sequence the codec is applied to

-----------------------------------------------------------------------------
(* Program constants *)

MOUSEEVENTF_XDOWN == 128
MOUSEEVENTF_XUP   == 256
XBUTTON1          == 1
XBUTTON2          == 2
WM_KEYDOWN        == 256
WM_SYSKEYDOWN     == 260
VK_INSERT         == 45
VK_END            == 35
WM_LBUTTONDOWN    == 513
WM_LBUTTONUP      == 514
WM_RBUTTONDOWN    == 516
WM_RBUTTONUP      == 517
WM_MOUSEWHEEL     == 522
WM_XBUTTONDOWN    == 523
WM_XBUTTONUP      == 524

(* Values of the environment that the source does not name *)
WM_KEYUP     == 257
WM_MOUSEMOVE == 512
VK_OTHER     == 65

-----------------------------------------------------------------------------
(* MouseRecord and the JSON form of a []MouseRecord *)

MouseRecord(d, x, y, e, data) ==
    [DeltaMS |-> d, X |-> x, Y |-> y, Event |-> e, Data |-> data]

ZeroRecord == MouseRecord(0, 0, 0, "", 0)

DigitTok == <<"0", "1", "2", "3", "4", "5", "6", "7", "8", "9">>
Digits   == {DigitTok[k] : k \in 1..10}
IntKeys  == {"DeltaMS:", "X:", "Y:", "Data:"}
Keys     == IntKeys \cup {"Event:"}
Punct    == {"[", "]", "{", "}", ",", "-", "?"}

DigitVal(t) == (CHOOSE k \in 1..10 : DigitTok[k] = t) - 1

RECURSIVE FormatNat(_)
FormatNat(n) ==
    IF n < 10 THEN <<DigitTok[n + 1]>>
    ELSE FormatNat(n \div 10) \o <<DigitTok[(n % 10) + 1]>>

(* FormatInt without the sign *)
FormatInt_Unsigned(n) == IF n < 0 THEN FormatNat(-n) ELSE FormatNat(n)

FormatInt(n) == IF n < 0 THEN <<"-">> \o FormatNat(-n) ELSE FormatNat(n)

MarshalRecord(r) ==
    <<"{", "DeltaMS:">> \o FormatInt(r.DeltaMS)
    \o <<",", "X:">> \o FormatInt(r.X)
    \o <<",", "Y:">> \o FormatInt(r.Y)
    \o <<",", "Event:", r.Event>>
    \o <<",", "Data:">> \o FormatInt(r.Data)
    \o <<"}">>

RECURSIVE MarshalElems(_)
MarshalElems(s) ==
    IF Len(s) = 0 THEN <<>>
    ELSE IF Len(s) = 1 THEN MarshalRecord(s[1])
    ELSE MarshalRecord(s[1]) \o <<",">> \o MarshalElems(Tail(s))

MarshalIndent(s) == <<"[">> \o MarshalElems(s) \o <<"]">>

(* json.Unmarshal: a parse result is [ok, pos, val], pos the next unread token *)
Fail == [ok |-> FALSE, pos |-> 0, val |-> 0]

At(b, p) == IF p >= 1 /\ p <= Len(b) THEN b[p] ELSE "EOF"

RECURSIVE DigitRun(_, _)
DigitRun(b, p) == IF At(b, p) \in Digits THEN 1 + DigitRun(b, p + 1) ELSE 0

RECURSIVE NatValue(_, _, _)
NatValue(b, p, n) ==
    IF n = 0 THEN 0
    ELSE NatValue(b, p, n - 1) * 10 + DigitVal(b[p + n - 1])

ParseInt(b, p) ==
    LET neg == At(b, p) = "-"
        q   == IF neg THEN p + 1 ELSE p
        n   == DigitRun(b, q)
    IN  IF n = 0 \/ (n > 1 /\ b[q] = "0") THEN Fail
        ELSE [ok  |-> TRUE, pos |-> q + n,
              val |-> IF neg THEN 0 - NatValue(b, q, n) ELSE NatValue(b, q, n)]

ParseString(b, p) ==
    IF At(b, p) \in Digits \cup Keys \cup Punct \cup {"EOF"} THEN Fail
    ELSE [ok |-> TRUE, pos |-> p + 1, val |-> b[p]]

SetField(r, key, v) ==
    CASE key = "DeltaMS:" -> [r EXCEPT !.DeltaMS = v]
      [] key = "X:"       -> [r EXCEPT !.X = v]
      [] key = "Y:"       -> [r EXCEPT !.Y = v]
      [] key = "Data:"    -> [r EXCEPT !.Data = v]
      [] key = "Event:"   -> [r EXCEPT !.Event = v]

RECURSIVE ParseFields(_, _, _)
ParseFields(b, p, r) ==
    LET key == At(b, p)
        v   == IF key \in IntKeys THEN ParseInt(b, p + 1) ELSE ParseString(b, p + 1)
    IN  IF key \notin Keys \/ ~v.ok THEN Fail
        ELSE LET r2 == SetField(r, key, v.val)
             IN  IF At(b, v.pos) = "," THEN ParseFields(b, v.pos + 1, r2)
                 ELSE IF At(b, v.pos) = "}"
                      THEN [ok |-> TRUE, pos |-> v.pos + 1, val |-> r2]
                      ELSE Fail

ParseRecord(b, p) ==
    IF At(b, p) # "{" THEN Fail
    ELSE IF At(b, p + 1) = "}" THEN [ok |-> TRUE, pos |-> p + 2, val |-> ZeroRecord]
    ELSE ParseFields(b, p + 1, ZeroRecord)

RECURSIVE ParseElems(_, _, _)
ParseElems(b, p, acc) ==
    LET r == ParseRecord(b, p)
    IN  IF ~r.ok THEN Fail
        ELSE IF At(b, r.pos) = "," THEN ParseElems(b, r.pos + 1, Append(acc, r.val))
        ELSE IF At(b, r.pos) = "]"
             THEN [ok |-> TRUE, pos |-> r.pos + 1, val |-> Append(acc, r.val)]
             ELSE Fail

Unmarshal(b) ==
    LET r == IF At(b, 1) # "[" THEN Fail
             ELSE IF At(b, 2) = "]" THEN [ok |-> TRUE, pos |-> 3, val |-> <<>>]
             ELSE ParseElems(b, 2, <<>>)
    IN  IF r.ok /\ r.pos = Len(b) + 1
        THEN [ok |-> TRUE, records |-> r.val]
        ELSE [ok |-> FALSE, records |-> <<>>]


-----------------------------------------------------------------------------
(* The environment's inputs *)

(* MSLLHOOKSTRUCT with its message: position, and MouseData as <<hi, lo>> *)
MouseMsg(code, w, x, y, hi) ==
    [code |-> code, wparam |-> w, x |-> x, y |-> y, hi |-> hi, lo |-> 0]

MouseInputs ==
    { MouseMsg(0, WM_MOUSEMOVE, 0 - 5, 7, 0),
      MouseMsg(0, WM_LBUTTONDOWN, 10, 10, 0),
      MouseMsg(0, WM_MOUSEWHEEL, 3, 4, 65416),
      MouseMsg(0, WM_XBUTTONUP, 2, 1, XBUTTON2),
      MouseMsg(0 - 1, WM_LBUTTONDOWN, 10, 10, 0) }

KeyMsg(code, w, vk) == [code |-> code, wparam |-> w, vk |-> vk]

KeyInputs ==
    { KeyMsg(0, WM_KEYDOWN, VK_INSERT),
      KeyMsg(0, WM_SYSKEYDOWN, VK_INSERT),
      KeyMsg(0, WM_KEYUP, VK_INSERT),
      KeyMsg(0 - 1, WM_KEYDOWN, VK_INSERT),
      KeyMsg(0, WM_KEYDOWN, VK_END),
      KeyMsg(0, WM_KEYUP, VK_END),
      KeyMsg(0 - 1, WM_SYSKEYDOWN, VK_END),
      KeyMsg(0, WM_KEYDOWN, VK_OTHER) }

NoKey   == [code |-> 0, wparam |-> 0, vk |-> 0]
NoMouse == [code |-> 0, wparam |-> 0, x |-> 0, y |-> 0, hi |-> 0, lo |-> 0]
NoLoc   == [rec |-> FALSE, event |-> "", mouseData |-> 0, now |-> 0]

-----------------------------------------------------------------------------
(* Pure helpers of the callbacks *)

(* (msStruct.MouseData >> 16) & 0xFFFF *)
HighWord(hi, lo) == hi % 65536

(* the switch on wparam of mouseHookProc *)
EventOf(wparam, mouseData) ==
    CASE wparam = WM_LBUTTONDOWN -> "LeftButtonDown"
      [] wparam = WM_LBUTTONUP   -> "LeftButtonUp"
      [] wparam = WM_RBUTTONDOWN -> "RightButtonDown"
      [] wparam = WM_RBUTTONUP   -> "RightButtonUp"
      [] wparam = WM_MOUSEWHEEL  -> "MouseWheel"
      [] wparam = WM_XBUTTONDOWN ->
            IF mouseData = XBUTTON1 THEN "Mouse4Down"
            ELSE IF mouseData = XBUTTON2 THEN "Mouse5Down" ELSE ""
      [] wparam = WM_XBUTTONUP ->
            IF mouseData = XBUTTON1 THEN "Mouse4Up"
            ELSE IF mouseData = XBUTTON2 THEN "Mouse5Up" ELSE ""
      [] OTHER -> "MouseMove"

(* int32(mouseData) of a uint32 below 2^16 *)
Int32OfWord(mouseData) == mouseData

(* the record mouseHookProc appends *)
NewRecord(deltaMS, x, y, event, mouseData) ==
    MouseRecord(deltaMS, x, y, event, Int32OfWord(mouseData))

(* the backend call sendMouseEvent issues: the primitive, its flags, its data *)
Call(prim, a, b) == [prim |-> prim, a |-> a, b |-> b]

sendXButtonInput(flags, xbutton) == Call("SendInput", flags, xbutton)

(* sendMouseEvent with a case for "MouseMove" that injects a relative move *)
sendMouseEvent_MoveInjects(event, data) ==
    CASE event = "LeftButtonDown"  -> Call("mouse_event", 2, 0)
      [] event = "LeftButtonUp"    -> Call("mouse_event", 4, 0)
      [] event = "RightButtonDown" -> Call("mouse_event", 8, 0)
      [] event = "RightButtonUp"   -> Call("mouse_event", 16, 0)
      [] event = "MouseWheel"      -> Call("mouse_event", 2048, data)
      [] event = "Mouse4Down"      -> sendXButtonInput(MOUSEEVENTF_XDOWN, XBUTTON1)
      [] event = "Mouse4Up"        -> sendXButtonInput(MOUSEEVENTF_XUP, XBUTTON1)
      [] event = "Mouse5Down"      -> sendXButtonInput(MOUSEEVENTF_XDOWN, XBUTTON2)
      [] event = "Mouse5Up"        -> sendXButtonInput(MOUSEEVENTF_XUP, XBUTTON2)
      [] event = "MouseMove"       -> Call("mouse_event", 1, 0)
      [] OTHER                     -> Call("none", 0, 0)

(* sendMouseEvent with the Mouse5 cases passing XBUTTON1 *)
sendMouseEvent_Mouse5AsButton1(event, data) ==
    CASE event = "LeftButtonDown"  -> Call("mouse_event", 2, 0)
      [] event = "LeftButtonUp"    -> Call("mouse_event", 4, 0)
      [] event = "RightButtonDown" -> Call("mouse_event", 8, 0)
      [] event = "RightButtonUp"   -> Call("mouse_event", 16, 0)
      [] event = "MouseWheel"      -> Call("mouse_event", 2048, data)
      [] event = "Mouse4Down"      -> sendXButtonInput(MOUSEEVENTF_XDOWN, XBUTTON1)
      [] event = "Mouse4Up"        -> sendXButtonInput(MOUSEEVENTF_XUP, XBUTTON1)
      [] event = "Mouse5Down"      -> sendXButtonInput(MOUSEEVENTF_XDOWN, XBUTTON1)
      [] event = "Mouse5Up"        -> sendXButtonInput(MOUSEEVENTF_XUP, XBUTTON1)
      [] OTHER                     -> Call("none", 0, 0)

sendMouseEvent(event, data) ==
    CASE event = "LeftButtonDown"  -> Call("mouse_event", 2, 0)
      [] event = "LeftButtonUp"    -> Call("mouse_event", 4, 0)
      [] event = "RightButtonDown" -> Call("mouse_event", 8, 0)
      [] event = "RightButtonUp"   -> Call("mouse_event", 16, 0)
      [] event = "MouseWheel"      -> Call("mouse_event", 2048, data)
      [] event = "Mouse4Down"      -> sendXButtonInput(MOUSEEVENTF_XDOWN, XBUTTON1)
      [] event = "Mouse4Up"        -> sendXButtonInput(MOUSEEVENTF_XUP, XBUTTON1)
      [] event = "Mouse5Down"      -> sendXButtonInput(MOUSEEVENTF_XDOWN, XBUTTON2)
      [] event = "Mouse5Up"        -> sendXButtonInput(MOUSEEVENTF_XUP, XBUTTON2)
      [] OTHER                     -> Call("none", 0, 0)

(* one entry of the trace of backend calls, issued for the record of index i *)
Issued(c, i) == [prim |-> c.prim, a |-> c.a, b |-> c.b, i |-> i]

NoFile == [exists |-> FALSE, bytes |-> <<>>]

(* ioutil.WriteFile: it creates or truncates the file and writes b; it can fail
   before creating anything or after writing a part *)
WriteOutcomes == {"ok", "open-failed", "cut-half"}

WriteFile(old, b, outcome) ==
    CASE outcome = "ok"          -> [exists |-> TRUE, bytes |-> b]
      [] outcome = "open-failed" -> old
      [] outcome = "cut-half"    -> [exists |-> TRUE, bytes |-> SubSeq(b, 1, Len(b) \div 2)]

(* dumpToFile(recordFileName, recordedData): the file it leaves, the error it
   returns *)
dumpToFile(old, data, outcome) ==
    [file |-> WriteFile(old, MarshalIndent(data), outcome),
     err  |-> IF outcome = "ok" THEN "nil" ELSE "write"]

(* LoadRecords with the error of json.Unmarshal dropped *)
LoadRecords_DropsDecodeError(f, readOk) ==
    IF ~f.exists \/ ~readOk THEN [err |-> "read", records |-> <<>>]
    ELSE [err |-> "nil", records |-> Unmarshal(f.bytes).records]

(* replayFromFile up to its loop: the error, or the records to replay *)
LoadRecords(f, readOk) ==
    IF ~f.exists \/ ~readOk THEN [err |-> "read", records |-> <<>>]
    ELSE LET u == Unmarshal(f.bytes)
         IN  IF u.ok THEN [err |-> "nil", records |-> u.records]
             ELSE [err |-> "decode", records |-> <<>>]

(* SleepUntil with DeltaMS taken as nanoseconds: no millisecond passes *)
SleepUntil_Nanoseconds(t, deltaMS) == t

(* time.Sleep(d): it returns at once when d <= 0 *)
SleepUntil(t, deltaMS) == IF deltaMS > 0 THEN t + deltaMS ELSE t


-----------------------------------------------------------------------------
(* main has installed both hooks and is in runMessageLoop *)
Pumping ==
    /\ mainpc = "pump"
    /\ hKeyboardHook = 1 /\ hMouseHook = 2
    /\ installed = {"keyboard", "mouse"}
    /\ exitCode = 0
    /\ installErr = "nil"

-----------------------------------------------------------------------------
(* The state after construction: nothing recorded, no callback running *)

NothingRecorded ==
    /\ now = 0
    /\ mtx = "free"
    /\ isRecording = FALSE
    /\ recordingStarted = FALSE
    /\ recordedData = <<>>
    /\ lastEventTime = 0
    /\ file = NoFile
    /\ kpc = "idle" /\ kargs = NoKey /\ kfwd = <<>> /\ printed = {} /\ derr = "nil"
    /\ records = <<>> /\ ri = 0 /\ rerr = "nil" /\ wake = 0 /\ out = <<>>
    /\ synthEnd = 0 /\ failedAt = 0 - 1
    /\ mpc = "idle" /\ margs = NoMouse /\ mloc = NoLoc /\ mfwd = <<>>
    /\ presses = 0
    /\ events = 0
    /\ sessionEvents = <<>>
    /\ sessionStart = 0 /\ stamps = <<>>
    /\ rdpc = "idle" /\ rdbytes = NoFile

Init == NothingRecorded /\ Pumping

Tick ==
    /\ now < MaxTime
    /\ now' = now + 1
    /\ UNCHANGED <<procVars, mtx, recVars, file, kbdVars, replVars, mouseVars,
                   presses, events, sessionEvents, sessionStart, stamps>>

-----------------------------------------------------------------------------
(* mouseHookProc *)

(* the OS calls the hook; code < 0 goes straight to CallNextHookEx *)
MouseEnterFrom(inputs) ==
    \E m \in inputs :
        LET counted == m.code >= 0 /\ recordingStarted
        IN  /\ mpc = "idle"
            /\ counted => events < MaxEvents
            /\ margs' = m
            /\ mloc' = NoLoc
            /\ mfwd' = <<>>
            /\ mpc' = IF m.code < 0 THEN "m_forward" ELSE "m_read"
            /\ events' = IF counted THEN events + 1 ELSE events
            /\ sessionEvents' = IF counted THEN Append(sessionEvents, m)
                                ELSE sessionEvents
            /\ UNCHANGED <<procVars, now, mtx, recVars, file, kbdVars, replVars, presses, sessionStart,
                   stamps>>

MouseEnter == MouseEnterFrom(MouseInputs)

(* lines 223-260: rec := isRecording under the lock, then the decoding *)
MouseRead ==
    /\ mpc = "m_read"
    /\ mtx = "free"
    /\ LET md == HighWord(margs.hi, margs.lo)
       IN  mloc' = [rec |-> isRecording, event |-> EventOf(margs.wparam, md),
                    mouseData |-> md, now |-> 0]
    /\ mpc' = IF isRecording THEN "m_now" ELSE "m_forward"
    /\ UNCHANGED <<procVars, now, mtx, recVars, file, kbdVars, replVars, margs, mfwd,
                   presses, events, sessionEvents, sessionStart,
                   stamps>>

(* line 266: now := time.Now() *)
MouseNow ==
    /\ mpc = "m_now"
    /\ mloc' = [mloc EXCEPT !.now = now]
    /\ stamps' = Append(stamps, now)
    /\ mpc' = "m_append"
    /\ UNCHANGED <<procVars, now, mtx, recVars, file, kbdVars, replVars, margs, mfwd,
                   presses, events, sessionEvents, sessionStart>>

(* lines 267-278: the delta, lastEventTime and the append, under the lock *)
MouseAppend ==
    /\ mpc = "m_append"
    /\ mtx = "free"
    /\ recordedData' = Append(recordedData,
                              NewRecord(mloc.now - lastEventTime, margs.x, margs.y,
                                        mloc.event, mloc.mouseData))
    /\ lastEventTime' = mloc.now
    /\ mpc' = "m_forward"
    /\ UNCHANGED <<procVars, now, mtx, isRecording, recordingStarted, file, kbdVars,
                   replVars, margs, mloc, mfwd, presses, events, sessionEvents, sessionStart,
                   stamps>>

(* CallNextHookEx(0, code, wparam, lparam) *)
MouseForward ==
    /\ mpc = "m_forward"
    /\ mfwd' = Append(mfwd, margs)
    /\ mpc' = "m_ret"
    /\ UNCHANGED <<procVars, now, mtx, recVars, file, kbdVars, replVars, margs, mloc,
                   presses, events, sessionEvents, sessionStart,
                   stamps>>

(* the callback returns: its arguments and locals are gone *)
MouseReturn ==
    /\ mpc = "m_ret"
    /\ mpc' = "idle"
    /\ margs' = NoMouse /\ mloc' = NoLoc /\ mfwd' = <<>>
    /\ UNCHANGED <<procVars, now, mtx, recVars, file, kbdVars, replVars, presses,
                   events, sessionEvents, sessionStart,
                   stamps>>

-----------------------------------------------------------------------------
(* keyboardHookProc *)

(* KbdNextPc without the test of wparam: a key release acts like a press *)
KbdNextPc_AnyTransition(k) ==
    IF k.code < 0 THEN "k_forward"
    ELSE CASE k.vk = VK_INSERT -> "k_toggle"
           [] k.vk = VK_END    -> "k_replay"
           [] OTHER            -> "k_forward"

(* KbdNextPc with the early exit returning at once, without CallNextHookEx *)
KbdNextPc_EarlyReturn(k) ==
    IF k.code < 0 THEN "k_ret"
    ELSE IF k.wparam = WM_KEYDOWN \/ k.wparam = WM_SYSKEYDOWN
         THEN CASE k.vk = VK_INSERT -> "k_toggle"
                [] k.vk = VK_END    -> "k_replay"
                [] OTHER            -> "k_forward"
         ELSE "k_forward"

(* lines 179-187, 203: where the callback goes for its arguments *)
KbdNextPc(k) ==
    IF k.code < 0 THEN "k_forward"
    ELSE IF k.wparam = WM_KEYDOWN \/ k.wparam = WM_SYSKEYDOWN
         THEN CASE k.vk = VK_INSERT -> "k_toggle"
                [] k.vk = VK_END    -> "k_replay"
                [] OTHER            -> "k_forward"
         ELSE "k_forward"

(* a press of the toggle key, as the OS delivers it to a hook *)
TogglePress(k) ==
    k.code >= 0 /\ k.wparam \in {WM_KEYDOWN, WM_SYSKEYDOWN} /\ k.vk = VK_INSERT

(* a press of the replay key *)
ReplayPress(k) ==
    k.code >= 0 /\ k.wparam \in {WM_KEYDOWN, WM_SYSKEYDOWN} /\ k.vk = VK_END

KbdEnterFrom(keys) ==
    \E k \in keys :
        /\ kpc = "idle"
        /\ kargs' = k
        /\ kfwd' = <<>>
        /\ printed' = {}
        /\ kpc' = KbdNextPc(k)
        /\ presses' = IF TogglePress(k) THEN (presses + 1) % 2 ELSE presses
        /\ UNCHANGED <<procVars, now, mtx, recVars, file, derr, replVars, mouseVars,
                       events, sessionEvents, sessionStart,
                   stamps>>

KbdEnter == KbdEnterFrom(KeyInputs)

(* lines 188-192: stop branch, up to the call of dumpToFile *)
ToggleStop ==
    /\ isRecording' = FALSE
    /\ recordingStarted' = FALSE
    /\ printed' = printed \cup {"Stop recording"}
    /\ kpc' = "k_dump"
    /\ UNCHANGED <<recordedData, lastEventTime, sessionEvents, sessionStart, stamps>>

(* ToggleStart without line 197: the buffer of the last session is kept *)
ToggleStart_KeepsBuffer ==
    /\ isRecording' = TRUE
    /\ recordingStarted' = TRUE
    /\ lastEventTime' = now
    /\ printed' = printed \cup {"Start recording"}
    /\ kpc' = "k_unlock"
    /\ sessionEvents' = <<>>
    /\ sessionStart' = now
    /\ stamps' = <<>>
    /\ UNCHANGED recordedData

(* ToggleStart without line 198: lastEventTime is left as it was *)
ToggleStart_KeepsClock ==
    /\ isRecording' = TRUE
    /\ recordingStarted' = TRUE
    /\ recordedData' = <<>>
    /\ printed' = printed \cup {"Start recording"}
    /\ kpc' = "k_unlock"
    /\ sessionEvents' = <<>>
    /\ sessionStart' = now
    /\ stamps' = <<>>
    /\ UNCHANGED lastEventTime

(* lines 194-199: start branch *)
ToggleStart ==
    /\ isRecording' = TRUE
    /\ recordingStarted' = TRUE
    /\ recordedData' = <<>>
    /\ lastEventTime' = now
    /\ printed' = printed \cup {"Start recording"}
    /\ kpc' = "k_unlock"
    /\ sessionEvents' = <<>>
    /\ sessionStart' = now
    /\ stamps' = <<>>

KbdToggle ==
    /\ kpc = "k_toggle"
    /\ mtx = "free"
    /\ mtx' = "kbd"
    /\ IF recordingStarted THEN ToggleStop ELSE ToggleStart
    /\ UNCHANGED <<procVars, now, file, kargs, kfwd, derr, replVars, mouseVars, presses,
                   events>>

(* line 193: dumpToFile(recordFileName, recordedData), its error dropped *)
KbdDump ==
    \E outcome \in WriteOutcomes :
        /\ kpc = "k_dump"
        /\ file' = dumpToFile(file, recordedData, outcome).file
        /\ derr' = dumpToFile(file, recordedData, outcome).err
        /\ kpc' = "k_unlock"
        /\ UNCHANGED <<procVars, now, mtx, recVars, kargs, kfwd, printed, replVars,
                       mouseVars, presses, events, sessionEvents, sessionStart,
                   stamps>>

KbdUnlock ==
    /\ kpc = "k_unlock"
    /\ mtx' = "free"
    /\ kpc' = "k_forward"
    /\ UNCHANGED <<procVars, now, recVars, file, kargs, kfwd, printed, derr, replVars,
                   mouseVars, presses, events, sessionEvents, sessionStart,
                   stamps>>

(* CallNextHookEx(0, code, wparam, lparam) *)
KbdForward ==
    /\ kpc = "k_forward"
    /\ kfwd' = Append(kfwd, kargs)
    /\ kpc' = "k_ret"
    /\ UNCHANGED <<procVars, now, mtx, recVars, file, kargs, printed, derr, replVars,
                   mouseVars, presses, events, sessionEvents, sessionStart,
                   stamps>>

(* the callback returns: its arguments and locals are gone *)
KbdReturn ==
    /\ kpc = "k_ret"
    /\ kpc' = "idle"
    /\ kargs' = NoKey /\ kfwd' = <<>> /\ printed' = {} /\ derr' = "nil"
    /\ UNCHANGED <<procVars, now, mtx, recVars, file, replVars, mouseVars, presses, events,
                   sessionEvents, sessionStart,
                   stamps>>

-----------------------------------------------------------------------------
(* replayFromFile, called from keyboardHookProc *)

(* ReplayLoad taking the records of the session in progress when there is one *)
ReplayLoad_FromBuffer ==
    \E readOk \in BOOLEAN :
        LET l == IF recordingStarted THEN [err |-> "nil", records |-> recordedData]
                 ELSE LoadRecords(file, readOk)
        IN  /\ kpc = "k_replay"
            /\ printed' = printed \cup {"Replaying"}
            /\ records' = l.records
            /\ rerr' = l.err
            /\ kpc' = IF l.err = "nil" THEN "r_loop" ELSE "k_report"
            /\ UNCHANGED <<procVars, now, mtx, recVars, file, kargs, kfwd, derr, ri,
                           wake, out, synthEnd, failedAt, mouseVars, presses,
                           events, sessionEvents, sessionStart, stamps>>

(* lines 204, 378-387: ReadFile and Unmarshal *)
ReplayLoad ==
    \E readOk \in BOOLEAN :
        LET l == LoadRecords(file, readOk)
        IN  /\ kpc = "k_replay"
            /\ printed' = printed \cup {"Replaying"}
            /\ records' = l.records
            /\ rerr' = l.err
            /\ kpc' = IF l.err = "nil" THEN "r_loop" ELSE "k_report"
            /\ UNCHANGED <<procVars, now, mtx, recVars, file, kargs, kfwd, derr, ri, wake, out,
                           synthEnd, failedAt, mouseVars, presses, events, sessionEvents, sessionStart,
                   stamps>>

(* lines 389-392: the loop test and, for i != 0, the call of time.Sleep *)
NeedsSleep(i) == i # 0

ReplayLoop ==
    /\ kpc = "r_loop"
    /\ IF ri >= Len(records)
       THEN /\ kpc' = "k_report"
            /\ UNCHANGED <<wake, out>>
       ELSE IF NeedsSleep(ri)
       THEN /\ wake' = SleepUntil(now, records[ri + 1].DeltaMS)
            /\ out' = Append(out, Issued(Call("Sleep", records[ri + 1].DeltaMS, 0), ri))
            /\ kpc' = "r_sleep"
       ELSE /\ kpc' = "r_cursor"
            /\ UNCHANGED <<wake, out>>
    /\ UNCHANGED <<procVars, now, mtx, recVars, file, kargs, kfwd, printed, derr, records, ri,
                   rerr, synthEnd, failedAt, mouseVars, presses, events, sessionEvents, sessionStart,
                   stamps>>

(* time.Sleep returns *)
ReplayWake ==
    /\ kpc = "r_sleep"
    /\ now >= wake
    /\ kpc' = "r_cursor"
    /\ UNCHANGED <<procVars, now, mtx, recVars, file, kargs, kfwd, printed, derr, replVars,
                   mouseVars, presses, events, sessionEvents, sessionStart,
                   stamps>>

(* a backend call returns its result, which the caller drops *)
NoteResult(ok) ==
    failedAt' = IF ~ok /\ failedAt < 0 THEN ri ELSE failedAt

(* line 393: setCursorPos *)
ReplaySetCursor ==
    \E ok \in BOOLEAN :
        /\ kpc = "r_cursor"
        /\ out' = Append(out, Issued(Call("SetCursorPos", records[ri + 1].X,
                                          records[ri + 1].Y), ri))
        /\ NoteResult(ok)
        /\ kpc' = "r_event"
        /\ UNCHANGED <<procVars, now, mtx, recVars, file, kargs, kfwd, printed, derr, records,
                       ri, rerr, wake, synthEnd, mouseVars, presses, events, sessionEvents, sessionStart,
                   stamps>>

(* line 394: sendMouseEvent; then the next i *)
ReplaySendEvent ==
    \E ok \in BOOLEAN :
        LET c == sendMouseEvent(records[ri + 1].Event, records[ri + 1].Data)
        IN  /\ kpc = "r_event"
            /\ c.prim = "none" => ok
            /\ out' = IF c.prim = "none" THEN out ELSE Append(out, Issued(c, ri))
            /\ NoteResult(ok)
            /\ synthEnd' = now
            /\ ri' = ri + 1
            /\ kpc' = "r_loop"
            /\ UNCHANGED <<procVars, now, mtx, recVars, file, kargs, kfwd, printed, derr,
                           records, rerr, wake, mouseVars, presses, events, sessionEvents, sessionStart,
                   stamps>>

(* lines 205-209: replayFromFile has returned, its locals are gone; the report
   of its result *)
KbdReport ==
    /\ kpc = "k_report"
    /\ printed' = printed \cup {IF rerr # "nil" THEN "Replay failed"
                                ELSE "Replay completed"}
    /\ kpc' = "k_forward"
    /\ records' = <<>> /\ ri' = 0 /\ rerr' = "nil" /\ wake' = 0 /\ out' = <<>>
    /\ synthEnd' = 0 /\ failedAt' = 0 - 1
    /\ UNCHANGED <<procVars, now, mtx, recVars, file, kargs, kfwd, derr, mouseVars,
                   presses, events, sessionEvents, sessionStart,
                   stamps>>

-----------------------------------------------------------------------------
(* The reference scheduling: the message-pump thread runs one callback at a
   time, so a callback begins only when no other is running *)

KbdSteps ==
    \/ KbdToggle \/ KbdDump \/ KbdUnlock \/ KbdForward \/ KbdReturn
    \/ ReplayLoad \/ ReplayLoop \/ ReplayWake \/ ReplaySetCursor
    \/ ReplaySendEvent \/ KbdReport

MouseSteps ==
    MouseRead \/ MouseNow \/ MouseAppend \/ MouseForward \/ MouseReturn

Next ==
    \/ Tick
    \/ (mpc = "idle" /\ KbdEnter)
    \/ (kpc = "idle" /\ MouseEnter)
    \/ KbdSteps
    \/ MouseSteps

Spec == Init /\ [][Next]_vars


-----------------------------------------------------------------------------
(* The replay engine on any log: the file at the fixed path is whatever an
   earlier run or the user left there, the replay key is pressed any number
   of times, and nothing is recorded. *)

RECURSIVE SeqsUpTo(_, _)
SeqsUpTo(S, n) ==
    IF n = 0 THEN {<<>>}
    ELSE LET shorter == SeqsUpTo(S, n - 1)
         IN  shorter \cup {Append(q, x) : q \in {r \in shorter : Len(r) = n - 1}, x \in S}

ReplayRecords ==
    { MouseRecord(1, 0 - 5, 7, "MouseMove", 0),
      MouseRecord(0, 10, 10, "LeftButtonDown", 0),
      MouseRecord(2, 10, 10, "LeftButtonUp", 0),
      MouseRecord(1, 8, 9, "RightButtonDown", 0),
      MouseRecord(0, 8, 9, "RightButtonUp", 0),
      MouseRecord(1, 3, 4, "MouseWheel", 0 - 120),
      MouseRecord(0 - 1, 3, 4, "MouseWheel", 65416),
      MouseRecord(1, 1, 2, "Mouse4Down", 1),
      MouseRecord(0, 1, 2, "Mouse4Up", 1),
      MouseRecord(2, 2, 1, "Mouse5Down", 2),
      MouseRecord(1, 2, 1, "Mouse5Up", 2),
      MouseRecord(1, 6, 6, "", 3) }

ReplayLogs == SeqsUpTo(ReplayRecords, MaxLogLen)

(* a byte of the file overwritten by one that fits nowhere in the format *)
Garbled(b) == [k \in 1..Len(b) |-> IF k = (Len(b) + 1) \div 2 THEN "?" ELSE b[k]]

ReplayFiles ==
    {NoFile}
    \cup {[exists |-> TRUE, bytes |-> MarshalIndent(l)] : l \in ReplayLogs}
    \cup {WriteFile(NoFile, MarshalIndent(l), "cut-half") : l \in ReplayLogs}
    \cup {[exists |-> TRUE, bytes |-> Garbled(MarshalIndent(l))] : l \in ReplayLogs}

InitReplay ==
    /\ file \in ReplayFiles
    /\ now = 0
    /\ mtx = "free"
    /\ isRecording = FALSE
    /\ recordingStarted = FALSE
    /\ recordedData = <<>>
    /\ lastEventTime = 0
    /\ kpc = "idle" /\ kargs = NoKey /\ kfwd = <<>> /\ printed = {} /\ derr = "nil"
    /\ records = <<>> /\ ri = 0 /\ rerr = "nil" /\ wake = 0 /\ out = <<>>
    /\ synthEnd = 0 /\ failedAt = 0 - 1
    /\ mpc = "idle" /\ margs = NoMouse /\ mloc = NoLoc /\ mfwd = <<>>
    /\ presses = 0
    /\ events = 0
    /\ sessionEvents = <<>>
    /\ sessionStart = 0 /\ stamps = <<>>
    /\ Pumping
    /\ rdpc = "idle" /\ rdbytes = NoFile

ReplayKeys == {k \in KeyInputs : ~TogglePress(k)}

NextReplay ==
    \/ Tick
    \/ KbdEnterFrom(ReplayKeys)
    \/ ReplayLoad \/ ReplayLoop \/ ReplayWake \/ ReplaySetCursor
    \/ ReplaySendEvent \/ KbdReport
    \/ KbdForward \/ KbdReturn

SpecReplay == InitReplay /\ [][NextReplay]_vars

-----------------------------------------------------------------------------
(* The codec on any sequence of records: dumpToFile, then the load of
   replayFromFile, with the file system doing what it is asked. *)

CodecRecords ==
    { MouseRecord(d, x, 7, e, data) :
        d \in {0, 1050}, x \in {0 - 5, 10},
        e \in {"MouseMove", "MouseWheel", ""}, data \in {0 - 120, 0, 65416} }

CodecInputs == SeqsUpTo(CodecRecords, MaxCodecLen)

InitCodec ==
    /\ recordedData \in CodecInputs
    /\ now = 0
    /\ mtx = "free"
    /\ isRecording = FALSE
    /\ recordingStarted = FALSE
    /\ lastEventTime = 0
    /\ file = NoFile
    /\ kpc = "c_dump" /\ kargs = NoKey /\ kfwd = <<>> /\ printed = {} /\ derr = "nil"
    /\ records = <<>> /\ ri = 0 /\ rerr = "nil" /\ wake = 0 /\ out = <<>>
    /\ synthEnd = 0 /\ failedAt = 0 - 1
    /\ mpc = "idle" /\ margs = NoMouse /\ mloc = NoLoc /\ mfwd = <<>>
    /\ presses = 0
    /\ events = 0
    /\ sessionEvents = <<>>
    /\ sessionStart = 0 /\ stamps = <<>>
    /\ Pumping
    /\ rdpc = "idle" /\ rdbytes = NoFile

CodecDump ==
    /\ kpc = "c_dump"
    /\ file' = dumpToFile(file, recordedData, "ok").file
    /\ derr' = dumpToFile(file, recordedData, "ok").err
    /\ kpc' = "c_load"
    /\ UNCHANGED <<procVars, now, mtx, recVars, kargs, kfwd, printed, replVars,
                   mouseVars, presses, events, sessionEvents, sessionStart,
                   stamps>>

CodecLoad ==
    /\ kpc = "c_load"
    /\ records' = LoadRecords(file, TRUE).records
    /\ rerr' = LoadRecords(file, TRUE).err
    /\ kpc' = "c_done"
    /\ UNCHANGED <<procVars, now, mtx, recVars, file, kargs, kfwd, printed, derr, ri, wake,
                   out, synthEnd, failedAt, mouseVars, presses, events,
                   sessionEvents, sessionStart,
                   stamps>>

NextCodec == CodecDump \/ CodecLoad

SpecCodec == InitCodec /\ [][NextCodec]_vars


-----------------------------------------------------------------------------
(* The whole process: main installs the hooks, defers unInstallHooks and runs
   the message loop, which calls the two callbacks one at a time. *)

(* the handles SetWindowsHookExW can return: 0 for a failure *)
KeyboardHandles == {0, 1}
MouseHandles    == {0, 2}

InitMain ==
    /\ NothingRecorded
    /\ mainpc = "install_keyboard"
    /\ hKeyboardHook = 0 /\ hMouseHook = 0
    /\ installed = {}
    /\ exitCode = 0
    /\ installErr = "nil"

(* lines 315-324 *)
MainInstallKeyboard ==
    \E hk \in KeyboardHandles :
        /\ mainpc = "install_keyboard"
        /\ IF hk = 0
           THEN /\ installErr' = "keyboard"
                /\ mainpc' = "install_failed"
                /\ UNCHANGED <<hKeyboardHook, installed>>
           ELSE /\ hKeyboardHook' = hk
                /\ installed' = installed \cup {"keyboard"}
                /\ mainpc' = "install_mouse"
                /\ UNCHANGED installErr
        /\ UNCHANGED <<hMouseHook, exitCode, readerVars, now, mtx, recVars, file,
                       kbdVars, replVars, mouseVars, presses, events,
                       sessionEvents, sessionStart, stamps>>

(* lines 326-337 *)
MainInstallMouse ==
    \E hm \in MouseHandles :
        /\ mainpc = "install_mouse"
        /\ IF hm = 0
           THEN /\ installErr' = "mouse"
                /\ mainpc' = "install_failed"
                /\ UNCHANGED <<hMouseHook, installed>>
           ELSE /\ hMouseHook' = hm
                /\ installed' = installed \cup {"mouse"}
                /\ mainpc' = "installed"
                /\ UNCHANGED installErr
        /\ UNCHANGED <<hKeyboardHook, exitCode, readerVars, now, mtx, recVars, file,
                       kbdVars, replVars, mouseVars, presses, events,
                       sessionEvents, sessionStart, stamps>>

(* lines 295-298: the error is printed and main returns; a Go program whose
   main returns exits with status 0 *)
MainInstallFailed ==
    /\ mainpc = "install_failed"
    /\ mainpc' = "exited"
    /\ exitCode' = 0
    /\ UNCHANGED <<hKeyboardHook, hMouseHook, installed, installErr, readerVars,
                   now, mtx, recVars, file, kbdVars, replVars, mouseVars, presses,
                   events, sessionEvents, sessionStart, stamps>>

(* lines 299-311: the defer, the instructions, the call of runMessageLoop *)
MainDefer ==
    /\ mainpc = "installed"
    /\ mainpc' = "pump"
    /\ UNCHANGED <<hKeyboardHook, hMouseHook, installed, exitCode, installErr,
                   readerVars, now, mtx, recVars, file, kbdVars, replVars,
                   mouseVars, presses, events, sessionEvents, sessionStart, stamps>>

(* lines 353-362: GetMessageW returns 0 and the loop ends; the thread is in
   GetMessageW only between two callbacks *)
MainQuit ==
    /\ mainpc = "pump"
    /\ kpc = "idle" /\ mpc = "idle"
    /\ mainpc' = "uninstall"
    /\ UNCHANGED <<hKeyboardHook, hMouseHook, installed, exitCode, installErr,
                   readerVars, now, mtx, recVars, file, kbdVars, replVars,
                   mouseVars, presses, events, sessionEvents, sessionStart, stamps>>

(* lines 340-349, run by the defer as main returns *)
unInstallHooks ==
    /\ installed' = installed \ ({h \in {"keyboard"} : hKeyboardHook # 0}
                                     \cup {h \in {"mouse"} : hMouseHook # 0})
    /\ hKeyboardHook' = 0
    /\ hMouseHook' = 0

MainUninstall ==
    /\ mainpc = "uninstall"
    /\ unInstallHooks
    /\ mainpc' = "exited"
    /\ exitCode' = 0
    /\ UNCHANGED <<installErr, readerVars, now, mtx, recVars, file, kbdVars,
                   replVars, mouseVars, presses, events, sessionEvents,
                   sessionStart, stamps>>

MainSteps ==
    \/ MainInstallKeyboard \/ MainInstallMouse \/ MainInstallFailed
    \/ MainDefer \/ MainQuit \/ MainUninstall

(* the callbacks run while main is in runMessageLoop *)
NextMain ==
    \/ MainSteps
    \/ (mainpc # "exited" /\ Tick)
    \/ (mainpc = "pump" /\ mpc = "idle" /\ KbdEnter)
    \/ (mainpc = "pump" /\ kpc = "idle" /\ MouseEnter)
    \/ KbdSteps
    \/ MouseSteps

SpecMain == InitMain /\ [][NextMain]_vars


-----------------------------------------------------------------------------
(* Callbacks on more than one thread: a mouse callback, a keyboard callback
   handling the toggle key and a second keyboard callback handling the replay
   key take their steps in any order; only the mutex orders them.  The write
   of ioutil.WriteFile is the two steps it makes on the file. *)

ConcKeys == {KeyMsg(0, WM_KEYDOWN, VK_INSERT)}

ConcMouseInputs ==
    { MouseMsg(0, WM_LBUTTONDOWN, 10, 10, 0) }

(* ioutil.WriteFile, first step: OpenFile with O_CREATE|O_TRUNC *)
KbdDumpOpen ==
    \E opened \in BOOLEAN :
        /\ kpc = "k_dump"
        /\ IF opened
           THEN /\ file' = [exists |-> TRUE, bytes |-> <<>>]
                /\ kpc' = "k_write"
                /\ UNCHANGED derr
           ELSE /\ file' = WriteFile(file, MarshalIndent(recordedData), "open-failed")
                /\ derr' = "write"
                /\ kpc' = "k_unlock"
        /\ UNCHANGED <<procVars, now, mtx, recVars, kargs, kfwd, printed, replVars,
                       mouseVars, presses, events, sessionEvents, sessionStart,
                       stamps>>

(* ioutil.WriteFile, second step: Write and Close *)
KbdDumpWrite ==
    \E outcome \in WriteOutcomes \ {"open-failed"} :
        /\ kpc = "k_write"
        /\ file' = dumpToFile(file, recordedData, outcome).file
        /\ derr' = dumpToFile(file, recordedData, outcome).err
        /\ kpc' = "k_unlock"
        /\ UNCHANGED <<procVars, now, mtx, recVars, kargs, kfwd, printed, replVars,
                       mouseVars, presses, events, sessionEvents, sessionStart,
                       stamps>>

(* a press of the replay key is handled on another thread *)
ReaderEnter ==
    /\ rdpc = "idle"
    /\ rdpc' = "k_replay"
    /\ UNCHANGED <<rdbytes, mainVars, now, mtx, recVars, file, kbdVars, replVars,
                   mouseVars, presses, events, sessionEvents, sessionStart, stamps>>

(* line 378: b, err := ioutil.ReadFile(filename), taking no lock *)
ReaderRead ==
    /\ rdpc = "k_replay"
    /\ rdbytes' = file
    /\ rdpc' = "r_loaded"
    /\ UNCHANGED <<mainVars, now, mtx, recVars, file, kbdVars, replVars,
                   mouseVars, presses, events, sessionEvents, sessionStart, stamps>>

(* the rest of that callback, which touches nothing shared *)
ReaderReturn ==
    /\ rdpc = "r_loaded"
    /\ rdpc' = "idle"
    /\ rdbytes' = NoFile
    /\ UNCHANGED <<mainVars, now, mtx, recVars, file, kbdVars, replVars,
                   mouseVars, presses, events, sessionEvents, sessionStart, stamps>>

NextConc ==
    \/ Tick
    \/ KbdEnterFrom(ConcKeys)
    \/ KbdToggle \/ KbdDumpOpen \/ KbdDumpWrite \/ KbdUnlock
    \/ KbdForward \/ KbdReturn
    \/ MouseEnterFrom(ConcMouseInputs)
    \/ MouseSteps
    \/ ReaderEnter \/ ReaderRead \/ ReaderReturn

SpecConc == Init /\ [][NextConc]_vars


-----------------------------------------------------------------------------
(* The capture path on every message class: recording sessions whose mouse
   events range over the messages a WH_MOUSE_LL hook is called for and over
   the values of the upper half of MouseData. *)

CaptureClasses ==
    {WM_MOUSEMOVE, WM_LBUTTONDOWN, WM_LBUTTONUP, WM_RBUTTONDOWN, WM_RBUTTONUP,
     WM_MOUSEWHEEL, WM_XBUTTONDOWN, WM_XBUTTONUP}

CaptureHighWords == {0, XBUTTON1, XBUTTON2, 3}

CaptureInputs ==
    {MouseMsg(0, w, 2, 1, hi) : w \in CaptureClasses, hi \in CaptureHighWords}

NextCapture ==
    \/ (mpc = "idle" /\ KbdEnterFrom(ConcKeys))
    \/ KbdToggle \/ KbdDump \/ KbdUnlock \/ KbdForward \/ KbdReturn
    \/ (kpc = "idle" /\ MouseEnterFrom(CaptureInputs))
    \/ MouseSteps

SpecCapture == Init /\ [][NextCapture]_vars


-----------------------------------------------------------------------------
(* Properties of the recorder, checked under Spec *)

(* C1: the two flags are equal in every state, and once a press of the toggle
   key has been handled the state is Recording exactly when the number of
   presses so far is odd (Idle when it is even), whatever mouse events, other
   keys and replays came in between. *)
C1_ToggleParity ==
    /\ isRecording = recordingStarted
    /\ kpc # "k_toggle" => (recordingStarted <=> presses = 1)

(* an even number of presses, at least two, has been handled: a stop has
   written the file, and the state is Idle again *)
C1_Witness ==
    /\ kpc = "idle" /\ mpc = "idle"
    /\ presses = 0 /\ file.exists
    /\ ~isRecording /\ ~recordingStarted

(* C2: when the write of a stop toggle succeeds, the file decodes to one record
   per mouse event handled since the matching start toggle, in the order the
   events came, each with the position of its event, and to nothing else. *)
C2_LogIsSession ==
    (kpc = "k_unlock" /\ "Stop recording" \in printed /\ derr = "nil") =>
        LET u == Unmarshal(file.bytes)
        IN  /\ file.exists
            /\ u.ok
            /\ Len(u.records) = Len(sessionEvents)
            /\ \A i \in 1..Len(sessionEvents) :
                   /\ u.records[i].X = sessionEvents[i].x
                   /\ u.records[i].Y = sessionEvents[i].y

(* a stop toggle has written a session of two different events *)
C2_Witness ==
    /\ kpc = "k_unlock" /\ "Stop recording" \in printed /\ derr = "nil"
    /\ Len(sessionEvents) = 2
    /\ sessionEvents[1].x # sessionEvents[2].x
    /\ Len(Unmarshal(file.bytes).records) = 2

(* C4: each invocation of either callback calls CallNextHookEx once, as its
   last act before it returns, with the arguments it was given. *)
C4_AlwaysForwards ==
    /\ kpc = "k_ret" => kfwd = <<kargs>>
    /\ kpc # "k_ret" => kfwd = <<>>
    /\ mpc = "m_ret" => mfwd = <<margs>>
    /\ mpc # "m_ret" => mfwd = <<>>

(* while recording, the keyboard callback is about to return from a replay
   that failed on the file an earlier stop left *)
C4_Witness ==
    /\ kpc = "k_ret" /\ "Replay failed" \in printed /\ kfwd = <<kargs>>
    /\ file.exists /\ recordingStarted

(* C8 as claimed: a wheel event whose upper half is a negative 16-bit delta is
   recorded with that negative delta as Data, and replay passes the Data of a
   wheel record to mouse_event as it is. *)
C8_WheelSignKept ==
    /\ (mpc = "m_forward" /\ mloc.rec /\ margs.wparam = WM_MOUSEWHEEL
            /\ margs.hi >= 32768)
        => recordedData[Len(recordedData)].Data = margs.hi - 65536
    /\ \A k \in 1..Len(out) :
           (out[k].prim = "mouse_event" /\ out[k].a = 2048)
               => out[k].b = records[out[k].i + 1].Data

-----------------------------------------------------------------------------
(* Properties of the replay engine, checked under SpecReplay *)

IsSynth(c)  == c.prim # "Sleep"
IsCursor(c) == c.prim = "SetCursorPos"
IsInject(c) == c.prim \in {"mouse_event", "SendInput"}

SimpleKinds == {"LeftButtonDown", "LeftButtonUp", "RightButtonDown",
                "RightButtonUp", "MouseWheel"}
XKinds      == {"Mouse4Down", "Mouse4Up", "Mouse5Down", "Mouse5Up"}

CallsFor(j, Test(_)) == {k \in 1..Len(out) : out[k].i = j /\ Test(out[k])}

(* C3: the calls of a replay come in the order of the log; for one record the
   cursor is set first and the injection follows; each record handled has one
   cursor set, at its position, and one injection if its kind is a button or
   the wheel, none if it is a move; and replay returns after the last record. *)
C3_ReplaySteps ==
    /\ \A p, q \in 1..Len(out) :
           p < q => /\ out[p].i <= out[q].i
                    /\ (out[p].i = out[q].i /\ IsSynth(out[p]) /\ IsSynth(out[q]))
                           => (IsCursor(out[p]) /\ IsInject(out[q]))
    /\ \A j \in 0..(ri - 1) :
           /\ Cardinality(CallsFor(j, IsCursor)) = 1
           /\ \A k \in CallsFor(j, IsCursor) :
                  out[k].a = records[j + 1].X /\ out[k].b = records[j + 1].Y
           /\ Cardinality(CallsFor(j, IsInject)) =
                  IF records[j + 1].Event \in SimpleKinds \cup XKinds THEN 1 ELSE 0
    /\ \A k \in 1..Len(out) : out[k].i <= ri /\ out[k].i < Len(records)
    /\ (kpc = "k_report" /\ rerr = "nil") => ri = Len(records)

(* a replay of a move followed by a button has done its two steps *)
C3_Witness ==
    /\ kpc = "k_report" /\ rerr = "nil"
    /\ Len(records) = 2 /\ ri = 2
    /\ records[1].Event = "MouseMove" /\ records[2].Event = "LeftButtonDown"
    /\ Len(SelectSeq(out, IsSynth)) = 3

(* C6: time.Sleep is never called for record 0, and the cursor set of a record
   i > 0 comes at least DeltaMS[i] milliseconds after the synthesis of record
   i-1 completed. *)
C6_Timing ==
    /\ [](\A k \in 1..Len(out) : out[k].prim = "Sleep" => out[k].i > 0)
    /\ [][(kpc = "r_cursor" /\ kpc' = "r_event" /\ ri > 0)
              => now - synthEnd >= records[ri + 1].DeltaMS]_vars

(* the second record, of delta 2, has had its cursor set after a wait *)
C6_Witness ==
    /\ kpc = "r_event" /\ ri = 1
    /\ records[2].DeltaMS = 2
    /\ now - synthEnd >= 2
    /\ IsCursor(out[Len(out)])

(* C7: an injection through SendInput is for a Mouse4 or Mouse5 record, with
   MOUSEEVENTF_XDOWN for a down kind and MOUSEEVENTF_XUP for an up kind, and
   XBUTTON1 for Mouse4, XBUTTON2 for Mouse5; an injection through mouse_event
   is for a left, right or wheel record; and each record of these kinds gets
   its injection. *)
C7_Dispatch ==
    /\ \A k \in 1..Len(out) :
           LET c == out[k]
               e == records[c.i + 1].Event
           IN  /\ c.prim = "SendInput" =>
                      /\ e \in XKinds
                      /\ c.a = (IF e \in {"Mouse4Down", "Mouse5Down"}
                                THEN MOUSEEVENTF_XDOWN ELSE MOUSEEVENTF_XUP)
                      /\ c.b = (IF e \in {"Mouse4Down", "Mouse4Up"} THEN 1 ELSE 2)
               /\ c.prim = "mouse_event" => e \in SimpleKinds
    /\ \A j \in 0..(ri - 1) :
           LET e == records[j + 1].Event
           IN  /\ e \in XKinds =>
                      \E k \in 1..Len(out) : out[k].i = j /\ out[k].prim = "SendInput"
               /\ e \in SimpleKinds =>
                      \E k \in 1..Len(out) : out[k].i = j /\ out[k].prim = "mouse_event"

(* a Mouse4Down and a Mouse5Up record have been injected *)
C7_Witness ==
    /\ Len(records) = 2 /\ ri = 2
    /\ records[1].Event = "Mouse4Down" /\ records[2].Event = "Mouse5Up"
    /\ \E k \in 1..Len(out) :
           out[k].prim = "SendInput" /\ out[k].b = 2 /\ out[k].a = MOUSEEVENTF_XUP

(* a file that is no JSON array of records: empty or cut short, or holding a
   byte that fits nowhere *)
Undecodable(f) ==
    /\ f.exists
    /\ \/ Len(f.bytes) = 0
       \/ f.bytes[Len(f.bytes)] # "]"
       \/ \E k \in 1..Len(f.bytes) : f.bytes[k] = "?"

(* C9: with the file missing or undecodable, a replay issues no backend call
   and never enters its loop, the callback prints the failure and not the
   completion, and it forwards and returns as usual; the same whenever
   replayFromFile comes back with an error. *)
C9_NoReplayOfBadLog ==
    /\ (~file.exists \/ Undecodable(file)) =>
           /\ out = <<>>
           /\ kpc \notin {"r_loop", "r_sleep", "r_cursor", "r_event"}
           /\ (kpc = "k_ret" /\ ReplayPress(kargs)) =>
                  /\ "Replay failed" \in printed
                  /\ "Replay completed" \notin printed
                  /\ kfwd = <<kargs>>
    /\ (kpc = "k_report" /\ rerr # "nil") => (out = <<>> /\ records = <<>>)

(* the replay key was pressed on a log cut short after its first record, and
   the callback is about to return *)
C9_Witness ==
    /\ kpc = "k_ret" /\ ReplayPress(kargs)
    /\ Undecodable(file) /\ Len(file.bytes) > 10
    /\ "Replay failed" \in printed

(* C10 as claimed: once a backend call has failed for record i, no call is
   issued for a later record, and replayFromFile returns an error. *)
C10_StopsAtFailure ==
    failedAt >= 0 =>
        /\ \A k \in 1..Len(out) : out[k].i <= failedAt
        /\ kpc = "k_report" => rerr # "nil"

-----------------------------------------------------------------------------
(* Properties of the codec, checked under SpecCodec *)

(* C5: the records decoded from the bytes written for a sequence are that
   sequence: as many records, in the same order, equal in every field. *)
C5_RoundTrip ==
    kpc = "c_done" => (rerr = "nil" /\ records = recordedData)

(* a sequence with a zero delta and a negative Data has gone through *)
C5_Witness ==
    /\ kpc = "c_done"
    /\ Len(recordedData) = 2
    /\ recordedData[1].DeltaMS = 0 /\ recordedData[1].Data < 0
    /\ recordedData[2].X < 0
    /\ records = recordedData

-----------------------------------------------------------------------------
(* Properties of the stop toggle's write, checked under Spec *)

(* C11 as claimed: when the write of a stop toggle has failed, the callback has
   printed something about it besides its stop message by the time it returns,
   and the buffer still holds one record per event of the session. *)
C11_WriteFailureReported ==
    (kpc = "k_ret" /\ "Stop recording" \in printed /\ derr # "nil") =>
        /\ printed # {"Stop recording"}
        /\ Len(recordedData) = Len(sessionEvents)

(* C16 as claimed: the first record of a session has DeltaMS 0, whatever time
   passed since the start toggle, and each later record has the milliseconds
   between the clock reading of the record before it and its own. *)
C16_FirstDeltaZero ==
    \A k \in 1..Len(recordedData) :
        recordedData[k].DeltaMS = IF k = 1 THEN 0 ELSE stamps[k] - stamps[k - 1]

(* C16, amended: with one callback running at a time, the first record of a
   session has the milliseconds between the start toggle and its clock
   reading, and each later record has the milliseconds between the clock
   reading of the record before it and its own. *)
C16_DeltaIsElapsed ==
    /\ Len(recordedData) <= Len(stamps)
    /\ \A k \in 1..Len(recordedData) :
           recordedData[k].DeltaMS =
               stamps[k] - (IF k = 1 THEN sessionStart ELSE stamps[k - 1])

(* a session started at 0 has a first event a millisecond later and a second
   one a millisecond after that *)
C16_Witness ==
    /\ sessionStart = 0
    /\ Len(recordedData) = 2
    /\ recordedData[1].DeltaMS = 1 /\ stamps[1] = 1
    /\ recordedData[2].DeltaMS = 1 /\ stamps[2] = 2

(* C18 as claimed: whenever the state is Idle and no toggle holds the mutex,
   the buffer holds no records: a stop toggle has emptied it after writing it. *)
C18_BufferCleared ==
    (~isRecording /\ ~recordingStarted /\ mtx = "free") => recordedData = <<>>

(* C20: every step of a keyboard callback that is not handling a press of
   the toggle key, a replay's steps included, successful or failed, Idle or
   Recording, leaves the two flags, the buffer, lastEventTime and the log file
   as they were; backend calls are issued only for a press of the replay key;
   and the records a replay loops over are those it decoded from the file when
   it began, kept to its end. *)
C20_ReplayFrame ==
    [][LET k == IF kpc = "idle" THEN kargs' ELSE kargs
       IN  ((kpc # "idle" \/ kpc' # "idle") /\ ~TogglePress(k)) =>
               /\ UNCHANGED <<isRecording, recordingStarted, recordedData,
                              lastEventTime, file>>
               /\ out' # <<>> => ReplayPress(k)
               /\ kpc' \in {"r_loop", "r_sleep", "r_cursor", "r_event"} =>
                      IF kpc = "k_replay"
                      THEN /\ file.exists
                           /\ Unmarshal(file.bytes).ok
                           /\ records' = Unmarshal(file.bytes).records
                      ELSE records' = records]_vars

(* while recording, with one event in the buffer, a replay has set the cursor
   for the one record of the log an earlier session left, a different event *)
C20_Witness ==
    /\ kpc = "r_event" /\ ReplayPress(kargs)
    /\ recordingStarted /\ Len(recordedData) = 1
    /\ Len(records) = 1 /\ records[1].X # recordedData[1].X
    /\ Len(out) = 1 /\ out[1].prim = "SetCursorPos" /\ out[1].a = records[1].X

-----------------------------------------------------------------------------
(* Properties of main, checked under SpecMain *)

(* C12 as claimed: the process ends with a status other than 0 when the
   registration of either hook failed, and with status 0 when both hooks were
   installed and the message loop ended. *)
C12_ExitStatus ==
    mainpc = "exited" => (exitCode = 0 <=> installErr = "nil")

(* C13 as claimed: when main has returned the OS holds no hook of the process,
   whichever way main was left, and the message loop runs only with both
   hooks installed. *)
C13_HooksReleased ==
    /\ mainpc = "exited" => installed = {}
    /\ mainpc = "pump" => installed = {"keyboard", "mouse"}

-----------------------------------------------------------------------------
(* Properties of interleaved callbacks, checked under SpecConc *)

(* C14 as claimed: the mouse callback appends its record only while the state
   is still the Recording it read, never after a stop toggle has made it Idle,
   and only into the buffer of the session in which it read the clock, never
   into the buffer a later start toggle has made. *)
C14_OneCriticalSection ==
    [][(mpc = "m_append" /\ mpc' = "m_forward")
          => (isRecording /\ Len(recordedData) < Len(stamps))]_vars

(* C15 as claimed: no record of the buffer or of a written log has a negative
   DeltaMS, and the instant a callback is about to subtract from is not later
   than the instant it read from the clock. *)
C15_DeltaNonNegative ==
    /\ \A k \in 1..Len(recordedData) : recordedData[k].DeltaMS >= 0
    /\ \A k \in 1..Len(Unmarshal(file.bytes).records) :
           Unmarshal(file.bytes).records[k].DeltaMS >= 0
    /\ mpc = "m_append" => mloc.now >= lastEventTime

(* C17 as claimed: the content a replay has read from the log file is a
   complete log, one that decodes to its records: it is never the empty or cut
   content the file has while a stop toggle is writing it. *)
C17_NoPartialLoad ==
    (rdpc = "r_loaded" /\ rdbytes.exists) => Unmarshal(rdbytes.bytes).ok

-----------------------------------------------------------------------------
(* Properties of the capture path, checked under SpecCapture *)

TenKinds == {"MouseMove"} \cup SimpleKinds \cup XKinds

(* C19 as claimed: every record of the buffer, and every record of the log a
   stop toggle has written, has one of the ten kinds as its Event, whatever
   the message class and the upper half of MouseData of its event were. *)
C19_KnownKinds ==
    /\ \A k \in 1..Len(recordedData) : recordedData[k].Event \in TenKinds
    /\ \A k \in 1..Len(Unmarshal(file.bytes).records) :
           Unmarshal(file.bytes).records[k].Event \in TenKinds

====
